---- MODULE Spec2Model ----
(***************************************************************************)
(* Model of src/index.ts: the /nextVod handler of a linear-channel         *)
(* playlist service.  A request looks its channel up in a document store,  *)
(* advances the channel's playlist position with wrap-around, plans ad     *)
(* breaks for the chosen asset, posts asset + plan to a remote stitcher    *)
(* and writes the new position back.  Every `await` of the handler is a    *)
(* separate step, so requests interleave exactly where the code yields.    *)
(*                                                                         *)
(* JavaScript values that may be undefined are tagged records: field t     *)
(* says what the value is ("undef", "num", "nan", "arr", "obj", "doc").    *)
(***************************************************************************)
EXTENDS Integers, Naturals, Sequences, FiniteSets, TLC

\* ---------------------------------------------------------------- bounds
MaxRequests == 2      \* requests that may be in flight together
MaxAssets == 3        \* longest playlist of a channel
MaxBreaks == 2        \* longest break list of an asset (plan specification)
MaxAds == 2           \* longest house-ad inventory (plan specification)

\* ------------------------------------------------------- program constants
FILLER_URL == "https://seivod-secure.akamaized.net/deagad1/playlist.m3u8"
FILLER_URL_DURATION_SEC == 54

\* getStitcher: new URL('/stitch/', stitcher.url).toString()
stitcherUrl == "https://stitcher.example/stitch/"

\* ------------------------------------------------------------- JS values
Undef == [t |-> "undef"]
NaN == [t |-> "nan"]
Num(n) == [t |-> "num", v |-> n]
Arr(s) == [t |-> "arr", v |-> s]

IsUndef(x) == x.t = "undef"
\* JS truthiness of the values that the code tests with if (...) / ||
Truthy(x) ==
  CASE x.t = "undef" -> FALSE
    [] x.t = "nan" -> FALSE
    [] x.t = "num" -> x.v # 0
    [] OTHER -> TRUE          \* arrays (also empty ones) and objects

\* ---------------------------------------------------------- sample data
\* Requests are numbered by arrival.  Clients are the requests of the
\* concurrent specifications; a serial round needs one request per asset.
Clients == 1..MaxRequests
Requests == 1..(IF MaxAssets > MaxRequests THEN MaxAssets ELSE MaxRequests)
ChannelIds == {"c1", "c2"}
\* what a caller may send as ?channelId= ("" stands for a missing or empty
\* parameter, both falsy in the handler's test)
QueryIds == ChannelIds \cup {"", "zz"}

AssetNames == <<"a1", "a2", "a3", "a4", "a5">>
AssetBreaks == << <<10>>, <<10, 20>>, <<>>, <<30>>, <<5, 10>> >>
AssetTitles == <<"Title 1", "", "Title 3", "", "Title 5">>

MkAsset(i) ==
  [t |-> "obj", id |-> AssetNames[i], url |-> "https://vod.example/" \o AssetNames[i],
   title |-> AssetTitles[i], breaks |-> AssetBreaks[i]]

Playlist(n) == [i \in 1..n |-> MkAsset(i)]

HouseAds ==
  << [url |-> "https://ads.example/h1", duration |-> 5],
     [url |-> "https://ads.example/h2", duration |-> 7] >>

\* ------------------------------------------------------------------ state
VARIABLES
  store,   \* the channels database: channelId -> document, or Undef when absent
  req,     \* per request: where the handler is and its local variables
  io,      \* per request: store reads, stitch calls and position writes issued
  plan,    \* the break planner on its own: its input and, once run, its output
  log      \* what the store has held: its first content, then each write, in order

vars == <<store, req, io, plan, log>>

\* ---------------------------------------------------- Channel Store Adapter
MkChannel(c, pos, assets, ads) ==
  [t |-> "doc", channelId |-> c, position |-> pos, assets |-> assets, houseAdUrls |-> ads]

\* (variant of getChannelById: the selector is ignored, any document matches)
getChannelByIdAny(db, channelId) ==
  IF \E c \in DOMAIN db : ~IsUndef(db[c])
  THEN db[CHOOSE c \in DOMAIN db : ~IsUndef(db[c])] ELSE Undef

\* db.find({selector: {channelId: {$eq: channelId}}}) and the first match
getChannelById(db, channelId) ==
  IF channelId \in DOMAIN db /\ ~IsUndef(db[channelId]) THEN db[channelId] ELSE Undef

\* (variant of getPositionForChannel: the stored position is never used)
getPositionForChannelReset(db, channelId) == Num(-1)

getPositionForChannel(db, channelId) ==
  LET channel == getChannelById(db, channelId)
  IN IF Truthy(channel) THEN channel.position ELSE Num(-1)

\* (variant of updatedChannel: the record is stored one position too far)
updatedChannelOffByOne(db, channelId, position) ==
  LET channel == getChannelById(db, channelId)
  IN IF Truthy(channel)
     THEN [channel EXCEPT !.position = IF position.t = "num" THEN Num(position.v + 1) ELSE position]
     ELSE Undef

\* (variant of updatedChannel: a partial update, only key and position are
\* written)
updatedChannelBare(db, channelId, position) ==
  LET channel == getChannelById(db, channelId)
  IN IF Truthy(channel) THEN MkChannel(channel.channelId, position, Undef, Undef) ELSE Undef

\* the record updatePositionForChannel hands to db.insert, Undef when the
\* channel is not found (then nothing is inserted)
updatedChannel(db, channelId, position) ==
  LET channel == getChannelById(db, channelId)
  IN IF Truthy(channel) THEN [channel EXCEPT !.position = position] ELSE Undef

\* db.insert(doc): the whole document replaces what the store holds for it
dbInsert(db, doc) == [db EXCEPT ![doc.channelId] = doc]

\* ------------------------------------------------------- Playlist Advancer
\* channel.assets || []
assetsOf(channel) == IF Truthy(channel.assets) THEN channel.assets.v ELSE <<>>

\* position + 1 in JavaScript: undefined + 1 is NaN
Plus1(x) == IF x.t = "num" THEN Num(x.v + 1) ELSE NaN

\* (variant of NewPosition: the end of the playlist is not detected)
NewPositionNoWrap(position, assets) ==
  IF position = Num(-1) THEN Num(0) ELSE Plus1(position)

\* (variant of NewPosition: the playlist restarts one asset too early)
NewPositionEarlyWrap(position, assets) ==
  IF position = Num(-1) THEN Num(0)
  ELSE IF position.t = "num" /\ position.v >= Len(assets) - 2 THEN Num(0)
  ELSE Plus1(position)

\* (variant of NewPosition: inside the playlist the position moves on by two)
NewPositionSkip(position, assets) ==
  IF position = Num(-1) THEN Num(0)
  ELSE IF position = Num(Len(assets) - 1) THEN Num(0)
  ELSE Plus1(Plus1(position))

NewPosition(position, assets) ==
  IF position = Num(-1) THEN Num(0)
  ELSE IF position = Num(Len(assets) - 1) THEN Num(0)
  ELSE Plus1(position)

\* assets[newPosition]: undefined outside the array and for NaN
AssetAt(assets, newPosition) ==
  IF newPosition.t = "num" /\ (newPosition.v + 1) \in DOMAIN assets
  THEN assets[newPosition.v + 1] ELSE Undef

\* --------------------------------------------------------- Ad Break Planner
RECURSIVE AdRunScaled(_, _)
\* (variant of AdRun: the cursor moves on by the duration taken as seconds)
AdRunScaled(ads, pos) ==
  IF ads = <<>> THEN <<>>
  ELSE <<[pos |-> pos, duration |-> Head(ads).duration, url |-> Head(ads).url]>>
       \o AdRunScaled(Tail(ads), pos + Head(ads).duration * 1000)

RECURSIVE AdRun(_, _)
\* channel.houseAdUrls.forEach: one descriptor per ad, the cursor moved on
\* by the raw ad.duration
AdRun(ads, pos) ==
  IF ads = <<>> THEN <<>>
  ELSE <<[pos |-> pos, duration |-> Head(ads).duration, url |-> Head(ads).url]>>
       \o AdRun(Tail(ads), pos + Head(ads).duration)

RECURSIVE HouseAdBreaks(_, _)
HouseAdBreaks(bs, ads) ==
  IF bs = <<>> THEN <<>>
  ELSE AdRun(ads, Head(bs) * 1000) \o HouseAdBreaks(Tail(bs), ads)

\* (variant of FillerBreaks: an asset without breaks gets a pre-roll filler)
FillerBreaksPreRoll(bs) ==
  IF bs = <<>>
  THEN <<[pos |-> 0, duration |-> FILLER_URL_DURATION_SEC * 1000, url |-> FILLER_URL]>>
  ELSE [i \in DOMAIN bs |->
          [pos |-> bs[i] * 1000, duration |-> FILLER_URL_DURATION_SEC * 1000, url |-> FILLER_URL]]

FillerBreaks(bs) ==
  [i \in DOMAIN bs |->
     [pos |-> bs[i] * 1000, duration |-> FILLER_URL_DURATION_SEC * 1000, url |-> FILLER_URL]]

\* the breaks of getStitchedVod's payload (asset is an object here)
BreakPlan(asset, channel) ==
  IF Truthy(channel) /\ Truthy(channel.houseAdUrls)
  THEN HouseAdBreaks(asset.breaks, channel.houseAdUrls.v)
  ELSE FillerBreaks(asset.breaks)

\* ------------------------------------------------------------ Stitch Client
\* A URI reference as the stitcher may return it; abs: it carries a scheme
Ref(abs, s) == [t |-> "str", abs |-> abs, s |-> s]

\* What fetch() can come back with.  net = FALSE: the call itself rejects.
\* body: "malformed" (not JSON), or a parsed JSON object with an optional uri
NetworkFailure == [t |-> "res", net |-> FALSE, ok |-> FALSE, body |-> [t |-> "none"]]
Answer(ok, body) == [t |-> "res", net |-> TRUE, ok |-> ok, body |-> body]
Malformed == [t |-> "malformed"]
JsonObj(uri) == [t |-> "obj", uri |-> uri]

Responses ==
  { NetworkFailure,
    Answer(TRUE, JsonObj(Ref(FALSE, "stitched/master.m3u8"))),
    Answer(TRUE, JsonObj(Undef)),
    Answer(TRUE, Malformed),
    Answer(FALSE, JsonObj(Undef)),
    Answer(FALSE, Malformed) }

\* new URL(ref, base).toString(): an absolute reference stands for itself, a
\* relative one is appended to the base directory, and undefined is first
\* turned into the string "undefined"
ResolveURL(ref, base) ==
  IF IsUndef(ref) THEN base \o "undefined"
  ELSE IF ref.abs THEN ref.s
  ELSE base \o ref.s

\* the part of getStitchedVod after fetch: what it returns, or that it throws
StitchOutcome(res, asset, base) ==
  IF ~res.net THEN [threw |-> TRUE, url |-> ""]
  ELSE IF res.body = Malformed THEN [threw |-> TRUE, url |-> ""]
  ELSE IF res.ok THEN [threw |-> FALSE, url |-> ResolveURL(res.body.uri, base)]
  ELSE [threw |-> FALSE, url |-> asset.url]

\* ------------------------------------------------------- the /nextVod handler
\* A request that has not arrived yet
IdleReq ==
  [pc |-> "idle", channelId |-> "", channel |-> Undef, assets |-> <<>>,
   position |-> Undef, newPosition |-> Undef, asset |-> Undef, payload |-> Undef,
   res |-> Undef, hlsUrl |-> "", upd |-> Undef, code |-> 0, body |-> Undef]

NoIo == [find |-> 0, stitch |-> 0, write |-> 0]

\* an entry of the log: the position that document doc brought into the store,
\* by request r (0: not by a request)
Stored(op, doc, r) == [op |-> op, channelId |-> doc.channelId, position |-> doc.position, by |-> r]

InFlight(q) ==
  req[q].pc \in {"getChannel", "getPosition", "fetch", "updateFind", "updateInsert"}

\* reply.code(c).send(b), after which the handler returns
Reply(rec, c, b) == [rec EXCEPT !.pc = "done", !.code = c, !.body = b]

\* an exception leaves the async handler: the framework answers 500
Throw(rec) == [rec EXCEPT !.pc = "done", !.code = 500, !.body = [error |-> "Internal Server Error"]]

ValidPositions(n) == {Num(i) : i \in (-1)..(n - 1)}

\* Channel c1 has any playlist up to MaxAssets and house ads; c2 is a short
\* channel whose assets and houseAdUrls fields may be missing or empty.
\* position is a valid index, -1, or a missing field.
InitDocs1 ==
  { MkChannel("c1", p, Arr(Playlist(n)), Arr(HouseAds)) :
      n \in 0..MaxAssets, p \in {Num(i) : i \in (-1)..(MaxAssets - 1)} \cup {Undef} }

InitDocs2 ==
  { MkChannel("c2", Num(-1), Undef, Undef),
    MkChannel("c2", Num(-1), Arr(Playlist(1)), Arr(<<>>)),
    MkChannel("c2", Num(0), Arr(Playlist(1)), Undef) }

WellFormed(doc) ==
  IsUndef(doc.position) \/ doc.position \in ValidPositions(Len(assetsOf(doc)))

Init ==
  /\ store \in { s \in [ChannelIds -> InitDocs1 \cup InitDocs2] :
                   /\ s["c1"] \in InitDocs1 /\ s["c2"] \in InitDocs2
                   /\ \A c \in ChannelIds : WellFormed(s[c]) }
  /\ req = [r \in Requests |-> IdleReq]
  /\ io = [r \in Requests |-> NoIo]
  /\ plan = Undef
  /\ log = <<Stored("init", store["c1"], 0), Stored("init", store["c2"], 0)>>

\* (variant of Receive: the channelId parameter is not checked)
ReceiveUnchecked(r, cid) ==
  /\ req[r].pc = "idle"
  /\ \A q \in Requests : q < r => req[q].pc # "idle"
  /\ req' = [req EXCEPT ![r] = [@ EXCEPT !.pc = "getChannel", !.channelId = cid]]
  /\ UNCHANGED <<store, io, plan, log>>

\* lines 146-149, 176-178: the request arrives; a missing channelId is
\* answered at once, otherwise the handler awaits getChannelById
Receive(r, cid) ==
  /\ req[r].pc = "idle"
  /\ \A q \in Requests : q < r => req[q].pc # "idle"    \* requests are numbered by arrival
  /\ req' = [req EXCEPT ![r] =
       IF cid # ""
       THEN [@ EXCEPT !.pc = "getChannel", !.channelId = cid]
       ELSE Reply([@ EXCEPT !.channelId = cid], 400, [error |-> "Channel ID not provided"])]
  /\ UNCHANGED <<store, io, plan, log>>

\* lines 150-156: the lookup answers; 404 when there is no such channel
GetChannel(r) ==
  /\ req[r].pc = "getChannel"
  /\ LET channel == getChannelById(store, req[r].channelId)
     IN req' = [req EXCEPT ![r] =
          IF ~Truthy(channel)
          THEN Reply(@, 404, [error |-> "Channel " \o req[r].channelId \o " not found"])
          ELSE [@ EXCEPT !.pc = "getPosition", !.channel = channel, !.assets = assetsOf(channel)]]
  /\ io' = [io EXCEPT ![r].find = @ + 1]
  /\ UNCHANGED <<store, plan, log>>

\* (variant of GetPosition: the new position is persisted as soon as it is
\* chosen, before the stitch call)
GetPositionWriteFirst(r) ==
  /\ req[r].pc = "getPosition"
  /\ LET position == getPositionForChannel(store, req[r].channelId)
         newPosition == NewPosition(position, req[r].assets)
         asset == AssetAt(req[r].assets, newPosition)
         upd == updatedChannel(store, req[r].channelId, newPosition)
         rec == [req[r] EXCEPT !.position = position, !.newPosition = newPosition, !.asset = asset]
     IN IF IsUndef(asset) \/ IsUndef(upd)
        THEN /\ req' = [req EXCEPT ![r] = Throw(rec)]
             /\ io' = [io EXCEPT ![r].find = @ + 1]
             /\ UNCHANGED <<store, log>>
        ELSE /\ req' = [req EXCEPT ![r] =
                  [rec EXCEPT !.pc = "fetch",
                              !.payload = [t |-> "obj", uri |-> asset.url,
                                           breaks |-> BreakPlan(asset, req[r].channel)]]]
             /\ io' = [io EXCEPT ![r].find = @ + 1, ![r].stitch = @ + 1, ![r].write = @ + 1]
             /\ store' = dbInsert(store, upd)
             /\ log' = Append(log, Stored("write", upd, r))
  /\ UNCHANGED plan

\* lines 157-168 and 83-118: the position read answers, the next position and
\* asset are chosen, the break plan is built and the stitch call is sent.
\* Reading asset.breaks of an undefined asset throws before anything is sent.
GetPosition(r) ==
  /\ req[r].pc = "getPosition"
  /\ LET position == getPositionForChannel(store, req[r].channelId)
         newPosition == NewPosition(position, req[r].assets)
         asset == AssetAt(req[r].assets, newPosition)
         rec == [req[r] EXCEPT !.position = position, !.newPosition = newPosition, !.asset = asset]
     IN IF IsUndef(asset)
        THEN /\ req' = [req EXCEPT ![r] = Throw(rec)]
             /\ io' = [io EXCEPT ![r].find = @ + 1]
        ELSE /\ req' = [req EXCEPT ![r] =
                  [rec EXCEPT !.pc = "fetch",
                              !.payload = [t |-> "obj", uri |-> asset.url,
                                           breaks |-> BreakPlan(asset, req[r].channel)]]]
             /\ io' = [io EXCEPT ![r].find = @ + 1, ![r].stitch = @ + 1]
  /\ UNCHANGED <<store, plan, log>>

\* lines 119-128 and 169-170: the stitcher answers (or the call fails);
\* getStitchedVod returns or throws, then updatePositionForChannel starts
Fetch(r, res) ==
  /\ req[r].pc = "fetch"
  /\ LET out == StitchOutcome(res, req[r].asset, stitcherUrl)
         rec == [req[r] EXCEPT !.res = res]
     IN req' = [req EXCEPT ![r] =
          IF out.threw THEN Throw(rec)
          ELSE [rec EXCEPT !.pc = "updateFind", !.hlsUrl = out.url]]
  /\ UNCHANGED <<store, io, plan, log>>

\* lines 171-175
Success(rec) ==
  Reply(rec, 200,
        [id |-> rec.asset.id,
         title |-> IF rec.asset.title # "" THEN rec.asset.title ELSE "No title",
         hlsUrl |-> rec.hlsUrl])

\* lines 76-78: updatePositionForChannel looks the channel up again; when it
\* is gone nothing is written and the handler replies
UpdateFind(r) ==
  /\ req[r].pc = "updateFind"
  /\ LET upd == updatedChannel(store, req[r].channelId, req[r].newPosition)
     IN req' = [req EXCEPT ![r] =
          IF IsUndef(upd) THEN Success(@)
          ELSE [@ EXCEPT !.pc = "updateInsert", !.upd = upd]]
  /\ io' = [io EXCEPT ![r].find = @ + 1]
  /\ UNCHANGED <<store, plan, log>>

\* (variant of UpdateInsert: a conditional write, which leaves the store alone
\* when the position is no longer the one this request has read)
UpdateInsertConditional(r) ==
  /\ req[r].pc = "updateInsert"
  /\ IF store[req[r].channelId].position = req[r].position
     THEN /\ store' = dbInsert(store, req[r].upd)
          /\ log' = Append(log, Stored("write", req[r].upd, r))
          /\ io' = [io EXCEPT ![r].write = @ + 1]
     ELSE UNCHANGED <<store, log, io>>
  /\ req' = [req EXCEPT ![r] = Success(@)]
  /\ UNCHANGED plan

\* lines 79 and 171-175: the record is written back and the handler replies
UpdateInsert(r) ==
  /\ req[r].pc = "updateInsert"
  /\ store' = dbInsert(store, req[r].upd)
  /\ log' = Append(log, Stored("write", req[r].upd, r))
  /\ req' = [req EXCEPT ![r] = Success(@)]
  /\ io' = [io EXCEPT ![r].write = @ + 1]
  /\ UNCHANGED plan

\* the process dies after the stitch call has returned and before the
\* position is written (between steps 4 and 5 of the advancer)
Crash(r) ==
  /\ req[r].pc \in {"updateFind", "updateInsert"}
  /\ req' = [req EXCEPT ![r].pc = "crashed"]
  /\ UNCHANGED <<store, io, plan, log>>

\* Under concurrent load the stitcher either stitches or cannot be reached
\* (every other answer is part of the serial specification below)
LoadResponses ==
  {res \in Responses : ~res.net \/ (res.ok /\ res.body # Malformed /\ ~IsUndef(res.body.uri))}

\* Requests arrive at any time and their steps interleave freely
Next ==
  \/ \E r \in Clients, cid \in QueryIds : Receive(r, cid)
  \/ \E r \in Clients : GetChannel(r)
  \/ \E r \in Clients : GetPosition(r)
  \/ \E r \in Clients, res \in LoadResponses : Fetch(r, res)
  \/ \E r \in Clients : UpdateFind(r)
  \/ \E r \in Clients : UpdateInsert(r)
  \/ \E r \in Clients : Crash(r)

Spec == Init /\ [][Next]_vars

\* A request arrives only when no other request is in flight: every request
\* runs alone, from its arrival to its reply (or to the crash of its process).
\* The serial specification draws every answer of the stitcher.
SerialReceive(r, cid) ==
  /\ \A q \in Requests : ~InFlight(q)
  /\ Receive(r, cid)

SerialNext ==
  \/ \E r \in Clients, cid \in QueryIds : SerialReceive(r, cid)
  \/ \E r \in Clients : GetChannel(r)
  \/ \E r \in Clients : GetPosition(r)
  \/ \E r \in Clients, res \in Responses : Fetch(r, res)
  \/ \E r \in Clients : UpdateFind(r)
  \/ \E r \in Clients : UpdateInsert(r)
  \/ \E r \in Clients : Crash(r)

SerialSpec == Init /\ [][SerialNext]_vars

\* A round: one request per asset of the longest playlist, one at a time, each
\* for a stored channel and each answered by the stitcher in a way that lets
\* getStitchedVod return
RoundResponses == {res \in Responses : res.net /\ res.body # Malformed}

RoundNext ==
  \/ \E r \in Requests, cid \in ChannelIds : SerialReceive(r, cid)
  \/ \E r \in Requests : GetChannel(r)
  \/ \E r \in Requests : GetPosition(r)
  \/ \E r \in Requests, res \in RoundResponses : Fetch(r, res)
  \/ \E r \in Requests : UpdateFind(r)
  \/ \E r \in Requests : UpdateInsert(r)

RoundSpec == Init /\ [][RoundNext]_vars

\* A race: as many requests as the longest playlist has assets, all for
\* channel c1, their steps interleaved freely, each stitched without failure
RaceResponses == {res \in LoadResponses : res.net}

RaceNext ==
  \/ \E r \in Requests : Receive(r, "c1")
  \/ \E r \in Requests : GetChannel(r)
  \/ \E r \in Requests : GetPosition(r)
  \/ \E r \in Requests, res \in RaceResponses : Fetch(r, res)
  \/ \E r \in Requests : UpdateFind(r)
  \/ \E r \in Requests : UpdateInsert(r)

\* the race is for c1; c2 is a channel without assets
RaceInit == Init /\ store["c2"] = MkChannel("c2", Num(-1), Undef, Undef)

RaceSpec == RaceInit /\ [][RaceNext]_vars

\* The channel documents are provisioned and removed by others: a document
\* can disappear from the store at any moment
RemoveChannel(c) ==
  /\ ~IsUndef(store[c])
  /\ store' = [store EXCEPT ![c] = Undef]
  /\ log' = Append(log, [op |-> "remove", channelId |-> c, position |-> Undef, by |-> 0])
  /\ UNCHANGED <<req, io, plan>>

\* line 79: db.insert of a document that was removed after the lookup of line
\* 76.  The code does not fix what the store does with it: it may take the
\* document (UpdateInsert) or refuse it, and then the awaited call throws
InsertRejected(r) ==
  /\ req[r].pc = "updateInsert"
  /\ IsUndef(store[req[r].channelId])
  /\ req' = [req EXCEPT ![r] = Throw(@)]
  /\ io' = [io EXCEPT ![r].write = @ + 1]
  /\ UNCHANGED <<store, plan, log>>

\* Requests for stored channels, one at a time and stitched without failure,
\* while channels are removed
ChurnNext ==
  \/ \E r \in Clients, cid \in ChannelIds : SerialReceive(r, cid)
  \/ \E r \in Clients : GetChannel(r)
  \/ \E r \in Clients : GetPosition(r)
  \/ \E r \in Clients, res \in RoundResponses : Fetch(r, res)
  \/ \E r \in Clients : UpdateFind(r)
  \/ \E r \in Clients : UpdateInsert(r)
  \/ \E r \in Clients : InsertRejected(r)
  \/ \E c \in ChannelIds : RemoveChannel(c)

ChurnSpec == Init /\ [][ChurnNext]_vars

\* ------------------------------------------------- the break planner alone
\* getStitchedVod's plan for every small asset and channel: break lists up to
\* MaxBreaks offsets, house-ad inventories up to MaxAds ads, and the channel
\* argument left out, without houseAdUrls, or with an inventory
RECURSIVE SeqsUpTo(_, _)
SeqsUpTo(S, n) ==
  IF n = 0 THEN {<<>>}
  ELSE SeqsUpTo(S, n - 1) \cup {Append(q, x) : q \in {z \in SeqsUpTo(S, n - 1) : Len(z) = n - 1}, x \in S}

BreakOffsets == {0, 10, 20}
AdPool == {HouseAds[i] : i \in DOMAIN HouseAds}

PlanAssets ==
  { [t |-> "obj", id |-> "a", url |-> "https://vod.example/a", title |-> "", breaks |-> bs] :
      bs \in SeqsUpTo(BreakOffsets, MaxBreaks) }

PlanChannels ==
  {Undef} \cup { MkChannel("c", Num(-1), Arr(<<>>), h) :
                   h \in {Undef} \cup {Arr(ads) : ads \in SeqsUpTo(AdPool, MaxAds)} }

PlanInit ==
  /\ store = [c \in ChannelIds |-> Undef]
  /\ req = [r \in Requests |-> IdleReq]
  /\ io = [r \in Requests |-> NoIo]
  /\ plan \in { [t |-> "plan", asset |-> a, channel |-> ch, breaks |-> Undef] : a \in PlanAssets, ch \in PlanChannels }
  /\ log = <<>>

\* lines 84-107
RunPlan ==
  /\ IsUndef(plan.breaks)
  /\ plan' = [plan EXCEPT !.breaks = Arr(BreakPlan(plan.asset, plan.channel))]
  /\ UNCHANGED <<store, req, io, log>>

PlanSpec == PlanInit /\ [][RunPlan]_vars

\* ===================================================================== claims
Started(r) == req[r].pc # "idle"
\* the handler has chosen newPosition (it is past the position read)
Chose(r) == ~IsUndef(req[r].channel) /\ req[r].pc \notin {"idle", "getChannel", "getPosition"}
Wrote(r) == io[r].write > 0
NAssets(doc) == Len(assetsOf(doc))

\* C1: in every reachable state, under any interleaving of requests (also for
\* channels without assets), a channel's stored position is -1 or an index of
\* its assets, and every position a request has written is below assets.length.
\* (A document whose position field is missing holds no position; no request
\* ever writes to it.)
C1_StoredPositionValid ==
  /\ \A c \in ChannelIds :
       ~IsUndef(store[c]) /\ ~IsUndef(store[c].position)
         => store[c].position \in ValidPositions(NAssets(store[c]))
  /\ \A r \in Requests :
       Wrote(r) => /\ req[r].upd.position.t = "num"
                   /\ req[r].upd.position.v \in 0..(NAssets(req[r].upd) - 1)

\* two requests have finished: one wrapped the playlist around and wrote, the
\* other was for a channel without assets
C1_Witness ==
  \E r1, r2 \in Requests :
    /\ Wrote(r1) /\ NAssets(req[r1].channel) >= 2
    /\ req[r1].position = Num(NAssets(req[r1].channel) - 1)
    /\ req[r2].pc = "done" /\ ~IsUndef(req[r2].channel) /\ req[r2].assets = <<>>

\* the transition function of the advancer, as the specification words it
Successor(p, n) == IF p = -1 \/ p = n - 1 THEN 0 ELSE p + 1

\* the playlist index of the asset a 200 reply carries
ServedIndex(r) == CHOOSE i \in 0..(Len(req[r].assets) - 1) : req[r].assets[i + 1].id = req[r].body.id

\* requests i..j are consecutive requests for the same channel, handled one at
\* a time, and each has written its position
Run(i, j) ==
  \A k \in i..j : /\ req[k].channelId = req[i].channelId
                  /\ Wrote(k) /\ req[k].code = 200

\* C2: with N >= 1 assets and a stored position in [-1, N-1], N consecutive
\* non-overlapping requests serve every index of [0, N-1] exactly once before
\* any index repeats, and no request computes a newPosition outside [0, N-1].
C2_RoundVisitsAll ==
  /\ \A r \in Requests :
       Chose(r) /\ NAssets(req[r].channel) >= 1 /\ ~IsUndef(req[r].position)
         => req[r].newPosition.t = "num"
            /\ req[r].newPosition.v \in 0..(NAssets(req[r].channel) - 1)
  /\ \A i, j \in Requests :
       i <= j /\ Run(i, j) =>
         LET n == NAssets(req[i].channel)
             served == {ServedIndex(k) : k \in i..j}
         IN /\ \A k \in i..j : ServedIndex(k) = req[k].newPosition.v
            /\ j - i + 1 <= n => Cardinality(served) = j - i + 1
            /\ j - i + 1 = n => served = 0..(n - 1)

\* a full round over the longest playlist that starts in its middle
C2_Witness ==
  /\ Run(1, MaxAssets)
  /\ NAssets(req[1].channel) = MaxAssets
  /\ req[1].position = Num(1)

\* C3: a request running alone on a channel with N >= 1 assets and stored
\* position p chooses 0 when p = -1 or p = N-1 and p+1 otherwise; its reply
\* carries the id of assets[newPosition], and once it has completed the
\* stored position is newPosition.
C3_AloneAdvances ==
  \A r \in Requests :
    Chose(r) /\ NAssets(req[r].channel) >= 1 /\ ~IsUndef(req[r].position) =>
      LET c == req[r].channelId
          n == NAssets(req[r].channel)
          p == req[r].position.v
      IN /\ req[r].newPosition = Num(Successor(p, n))
         /\ InFlight(r) => store[c].position = Num(p)
         /\ req[r].code = 200 =>
              /\ req[r].body.id = req[r].assets[Successor(p, n) + 1].id
              /\ Wrote(r)
              /\ (\A q \in Requests : q > r => ~Wrote(q) \/ req[q].channelId # c)
                   => store[c].position = Num(Successor(p, n))

\* the example of the specification: position 2 of 3 assets serves assets[0]
C3_Witness ==
  \E r \in Requests :
    /\ req[r].code = 200 /\ req[r].position = Num(2) /\ NAssets(req[r].channel) = 3
    /\ req[r].body.id = req[r].assets[1].id
    /\ store[req[r].channelId].position = Num(0)

\* C4: a request whose channelId matches no stored channel ends with 404 and
\* has made no position write and no stitch call.
C4_UnknownChannel404 ==
  \A r \in Requests :
    Started(r) /\ req[r].channelId # "" /\ req[r].channelId \notin ChannelIds =>
      /\ req[r].pc \in {"getChannel", "done"}
      /\ req[r].pc = "done" =>
           /\ req[r].code = 404
           /\ req[r].body = [error |-> "Channel " \o req[r].channelId \o " not found"]
      /\ io[r].write = 0 /\ io[r].stitch = 0

C4_Witness ==
  \E r \in Requests : req[r].pc = "done" /\ req[r].channelId = "zz" /\ req[r].code = 404

\* C5: a request without channelId (missing or empty) ends with 400 and has
\* not read the store, called the stitcher or written a position.
C5_MissingParameter400 ==
  \A r \in Requests :
    Started(r) /\ req[r].channelId = "" =>
      /\ req[r].pc = "done" /\ req[r].code = 400
      /\ req[r].body = [error |-> "Channel ID not provided"]
      /\ io[r] = NoIo

C5_Witness ==
  \E r \in Requests : req[r].pc = "done" /\ req[r].channelId = "" /\ req[r].code = 400

\* the stitch call of request r has come back, one way or another
Answered(r) == ~IsUndef(req[r].res)

\* C6: when the stitcher answers with a non-success status, whatever the
\* body, getStitchedVod returns the original asset.url and raises nothing.
C6_ErrorStatusFallsBack ==
  \A r \in Requests :
    Answered(r) /\ req[r].res.net /\ ~req[r].res.ok =>
      /\ req[r].code # 500
      /\ req[r].hlsUrl = req[r].asset.url

\* what the specification calls a stitcher failure beyond an error status
StitchFailed(res) ==
  \/ ~res.net
  \/ res.body = Malformed
  \/ res.ok /\ IsUndef(res.body.uri)

\* C7: no stitcher failure fails the request: after a transport failure, a
\* malformed body or a success answer without uri, the request still ends
\* with 200 and hlsUrl = asset.url.
C7_StitchFailureNeverFails ==
  \A r \in Requests :
    Answered(r) /\ StitchFailed(req[r].res) /\ req[r].pc = "done" =>
      /\ req[r].code = 200
      /\ req[r].body.hlsUrl = req[r].asset.url

\* C8: a request writes the position only after its stitch call has come
\* back; a request that crashes after stitching and before the write leaves
\* the stored position as it read it, and the retry that follows it, running
\* alone, chooses and serves the same asset.
C8_WriteAfterStitch ==
  \A r \in Requests :
    /\ req[r].pc \in {"updateFind", "updateInsert"} \/ Wrote(r) => Answered(r)
    /\ req[r].pc = "crashed" =>
         /\ ~Wrote(r)
         /\ (\A q \in Requests : ~Wrote(q))
              => store[req[r].channelId].position = req[r].position
         /\ \A q \in Requests :
              q = r + 1 /\ req[q].channelId = req[r].channelId /\ Chose(q) =>
                /\ req[q].newPosition = req[r].newPosition
                /\ req[q].asset = req[r].asset
                /\ req[q].code = 200 => req[q].body.id = req[r].asset.id

\* the first request crashed between stitching and writing, the retry has
\* been answered with the same asset
C8_Witness ==
  /\ req[1].pc = "crashed" /\ Answered(1)
  /\ req[2].channelId = req[1].channelId
  /\ req[2].code = 200 /\ req[2].body.id = req[1].asset.id

\* C9: a request for an existing channel whose assets are empty or absent
\* fails with an explicit error reply of the handler (not with an exception
\* from indexing outside the playlist) and writes no position.
C9_EmptyPlaylistExplicit ==
  \A r \in Requests :
    req[r].pc = "done" /\ ~IsUndef(req[r].channel) /\ req[r].assets = <<>> =>
      /\ req[r].code \notin {200, 500}
      /\ IsUndef(req[r].newPosition)
      /\ ~Wrote(r)

\* one filler descriptor per break offset
FillerPlan(bs) ==
  [i \in 1..Len(bs) |-> [pos |-> bs[i] * 1000, duration |-> 54000, url |-> FILLER_URL]]

\* C10: without a non-empty house-ad inventory (no channel, houseAdUrls
\* absent, houseAdUrls empty) the plan holds exactly one descriptor per break
\* offset b: {pos: b*1000, duration: FILLER_DURATION*1000, url: FILLER_URL}.
C10_FillerWithoutHouseAds ==
  ( /\ ~IsUndef(plan) /\ ~IsUndef(plan.breaks)
    /\ \/ IsUndef(plan.channel)
       \/ IsUndef(plan.channel.houseAdUrls)
       \/ plan.channel.houseAdUrls.v = <<>> )
  => plan.breaks.v = FillerPlan(plan.asset.breaks)

\* the planner has run
Planned == ~IsUndef(plan) /\ ~IsUndef(plan.breaks)
\* ... on a channel that declares a non-empty house-ad inventory
HasHouseAds ==
  /\ ~IsUndef(plan.channel) /\ ~IsUndef(plan.channel.houseAdUrls)
  /\ plan.channel.houseAdUrls.v # <<>>

\* C11: with k >= 1 house ads and m break offsets the plan has exactly m*k
\* descriptors: for each break offset b, in order, one per house ad in
\* inventory order with the ad's url and raw duration, the first at b*1000
\* and each following one at the previous pos plus the previous ad's raw
\* duration.
C11_HouseAdsBackToBack ==
  Planned /\ HasHouseAds =>
    LET ads == plan.channel.houseAdUrls.v
        bs == plan.asset.breaks
        k == Len(ads)
        out == plan.breaks.v
    IN /\ Len(out) = Len(bs) * k
       /\ \A i \in 1..Len(bs) : \A j \in 1..k :
            LET d == out[(i - 1) * k + j]
            IN /\ d.url = ads[j].url
               /\ d.duration = ads[j].duration
               /\ d.pos = IF j = 1 THEN bs[i] * 1000
                          ELSE out[(i - 1) * k + j - 1].pos + ads[j - 1].duration

\* the example of the specification: breaks [10, 20] and two ads of duration 5
C11_Witness ==
  /\ Planned /\ HasHouseAds
  /\ plan.asset.breaks = <<10, 20>>
  /\ plan.channel.houseAdUrls.v = <<HouseAds[1], HouseAds[1]>>
  /\ [i \in 1..4 |-> plan.breaks.v[i].pos] = <<10000, 10005, 20000, 20005>>

\* C12: for an asset without breaks the plan is empty, whatever the channel's
\* house-ad inventory is (no channel, absent, empty or non-empty).
C12_NoBreaksEmptyPlan ==
  Planned /\ plan.asset.breaks = <<>> => plan.breaks.v = <<>>

C12_Witness ==
  /\ Planned /\ plan.asset.breaks = <<>> /\ plan.breaks.v = <<>>
  /\ HasHouseAds

\* how many descriptors the planner emits for one break offset
PerBreak ==
  IF ~IsUndef(plan.channel) /\ ~IsUndef(plan.channel.houseAdUrls)
  THEN Len(plan.channel.houseAdUrls.v) ELSE 1

\* the break offset (in seconds) that descriptor d of the plan was emitted for
SourceOffset(d) == plan.asset.breaks[((d - 1) \div PerBreak) + 1]

\* C16: for every asset and inventory the descriptors come break by break in
\* ascending order of the source break offset (a descriptor of a later-listed
\* break never refers to an earlier offset than one of an earlier-listed
\* break) and, within one break, in inventory order.
C16_PlanIsTimeline ==
  Planned =>
    /\ \A d1, d2 \in 1..Len(plan.breaks.v) :
         d1 < d2 => SourceOffset(d1) <= SourceOffset(d2)
    /\ HasHouseAds =>
         \A d \in 1..Len(plan.breaks.v) :
           plan.breaks.v[d].url = plan.channel.houseAdUrls.v[((d - 1) % PerBreak) + 1].url

\* requests r1 and r2 are two requests for the same channel that have read
\* the same stored position
SameRead(r1, r2) ==
  /\ r1 # r2 /\ Chose(r1) /\ Chose(r2)
  /\ req[r1].channelId = req[r2].channelId
  /\ req[r1].position = req[r2].position

\* no request other than r1 and r2 has written to the channel of r1
OnlyWriters(r1, r2) ==
  \A q \in Requests \ {r1, r2} : ~(Wrote(q) /\ req[q].channelId = req[r1].channelId)

\* C13: nothing stops two concurrent requests for the same channel that read
\* the same stored position: both choose the same newPosition and the same
\* asset, each one that replies 200 has written that newPosition (the write
\* is unconditional), and when both have replied the stored position is one
\* step past the position they read.
C13_DuplicateServe ==
  \A r1, r2 \in Requests :
    SameRead(r1, r2) =>
      /\ req[r1].newPosition = req[r2].newPosition
      /\ req[r1].asset = req[r2].asset
      /\ \A r \in {r1, r2} :
           req[r].code = 200 =>
             /\ Wrote(r) /\ req[r].upd.position = req[r].newPosition
             /\ req[r].body.id = req[r].asset.id
      /\ req[r1].code = 200 /\ req[r2].code = 200 /\ OnlyWriters(r1, r2) =>
           /\ req[r1].body.id = req[r2].body.id
           /\ store[req[r1].channelId].position = req[r1].newPosition
           /\ req[r1].position.t = "num" =>
                req[r1].newPosition = Num(Successor(req[r1].position.v, Len(req[r1].assets)))

\* both requests read position 0 of c1 while the other was in flight, both
\* wrote 1 and both served assets[1]: two replies, one step
C13_Witness ==
  /\ SameRead(1, 2)
  /\ req[1].channelId = "c1" /\ req[1].position = Num(0) /\ Len(req[1].assets) = 3
  /\ req[1].code = 200 /\ req[2].code = 200
  /\ SubSeq(log, 3, Len(log)) = <<Stored("write", req[1].upd, 1), Stored("write", req[2].upd, 2)>>
  /\ req[1].upd.position = Num(1) /\ req[2].upd.position = Num(1)
  /\ req[1].body.id = "a2" /\ req[2].body.id = "a2"
  /\ store["c1"].position = Num(1)

\* log entries i1 < i2 are replies of two requests for one channel with n >= 3
\* assets: index k-1 is served at i1, index k+1 at i2, and between the two
\* nothing has served or written index k (or index k-1 once more)
Served(i) == log[i].op = "write" /\ req[log[i].by].code = 200
Skip(i1, i2, k, n) ==
  /\ i1 < i2 /\ Served(i1) /\ Served(i2)
  /\ log[i1].channelId = log[i2].channelId
  /\ n = Len(req[log[i2].by].assets) /\ n >= 3 /\ k \in 0..(n - 1)
  /\ log[i1].position = Num((k - 1) % n)
  /\ log[i2].position = Num((k + 1) % n)
  /\ \A i \in (i1 + 1)..(i2 - 1) :
       log[i].channelId = log[i1].channelId => log[i].position \notin {Num(k), Num((k - 1) % n)}

\* the log entry that channel's store content comes from just before entry i
Prev(i) == CHOOSE j \in 1..(i - 1) :
             /\ log[j].channelId = log[i].channelId
             /\ \A m \in (j + 1)..(i - 1) : log[m].channelId # log[i].channelId

\* C14: concurrent requests for one channel can pass over an index: after the
\* last reply that served index k-1, a reply serves index k+1 with no serve or
\* write of index k in between (the witness).  Whenever that happens, the
\* request that serves k+1 is a late one: it chose k+1 from a position (k, or
\* -1 when k+1 is 0) that the store no longer holds when it writes.
C14_SkipByLateRequest ==
  \A i1, i2 \in DOMAIN log : \A k \in 0..(MaxAssets - 1) :
    Skip(i1, i2, k, Len(req[log[i2].by].assets)) =>
      /\ req[log[i2].by].position \in {Num(k), Num(-1)}
      /\ req[log[i2].by].position # log[Prev(i2)].position

\* three assets, position 2 stored: request 1 reads 2; request 2 reads 2,
\* writes 0 and serves assets[0]; request 3 reads 0, writes 1 and serves
\* assets[1]; then request 1 writes 0 and serves assets[0]: index 2 is passed over
C14_Witness ==
  /\ Len(log) = 5 /\ log[1].position = Num(2)
  /\ Skip(4, 5, 2, 3)
  /\ <<log[3].by, log[4].by, log[5].by>> = <<2, 3, 1>>
  /\ req[1].body.id = "a1" /\ req[3].body.id = "a2"
  /\ \A r \in 1..3 : req[r].code = 200 /\ req[r].channelId = "c1"

\* the last entry of the log for channel c
LastStored(c) ==
  log[CHOOSE i \in DOMAIN log :
        log[i].channelId = c /\ \A j \in DOMAIN log : j > i => log[j].channelId # c]

\* C15: under any interleaving, every position a request writes for a channel
\* with N >= 1 assets is the successor (0 for -1 or N-1, otherwise +1) of a
\* position the store held for that channel earlier in the execution; the log
\* is the history of the store (its last entry is what the store holds).
C15_WritesFollowStored ==
  /\ \A i \in DOMAIN log :
       log[i].op = "write" =>
         \E j \in 1..(i - 1) :
           /\ log[j].channelId = log[i].channelId
           /\ log[j].position.t = "num"
           /\ log[i].position =
                Num(Successor(log[j].position.v, Len(req[log[i].by].assets)))
  /\ \A c \in ChannelIds : store[c].position = LastStored(c).position

\* a stale write moves the stored position backwards: 0 is stored, then 1 and
\* 2 are written, then a request that had read 0 writes 1
C15_Witness ==
  /\ Len(log) = 5
  /\ [i \in 1..5 |-> log[i].channelId] = <<"c1", "c2", "c1", "c1", "c1">>
  /\ <<log[1].position, log[3].position, log[4].position, log[5].position>>
       = <<Num(0), Num(1), Num(2), Num(1)>>
  /\ store["c1"].position = Num(1)
  /\ \A r \in 1..3 : req[r].code = 200

\* C17: a channel removed while a request for it is in flight makes the
\* position update a silent no-op: a removed channel is never written again
\* (it is not re-created), a request that finds it gone at the lookup of the
\* update writes nothing, a request that finds it gone at the position read
\* takes -1 and serves assets[0], and every request that has chosen an asset
\* ends with 200.
C17_RemovalIsSilentNoOp ==
  /\ \A i, j \in DOMAIN log :
       i < j /\ log[i].op = "remove" /\ log[j].channelId = log[i].channelId
         => log[j].op # "write"
  /\ \A r \in Requests :
       /\ Chose(r) /\ req[r].position = Num(-1) /\ Len(req[r].assets) >= 1
            => req[r].newPosition = Num(0) /\ req[r].asset = req[r].assets[1]
       /\ req[r].pc = "done" /\ ~IsUndef(req[r].asset)
            => /\ req[r].code = 200
               /\ IsUndef(req[r].upd) => io[r].write = 0

\* C18: a channel record without a position field is treated as never played:
\* a request running alone on such a channel with N >= 1 assets serves
\* assets[0] and stores position 0, as for a stored position of -1.
C18_AbsentPositionNeverPlayed ==
  \A r \in Requests :
    Chose(r) /\ IsUndef(req[r].position) /\ Len(req[r].assets) >= 1 =>
      /\ req[r].newPosition = Num(0)
      /\ req[r].asset = req[r].assets[1]
      /\ req[r].pc = "done" /\ (Answered(r) => ~StitchFailed(req[r].res)) =>
           /\ req[r].code = 200 /\ req[r].body.id = req[r].assets[1].id
           /\ Wrote(r) /\ req[r].upd.position = Num(0)

\* C19: a request that ends with 200 has issued exactly one stitch call and
\* exactly one position write, a request that ends with an error has issued
\* none, and no request issues a stitch call or a write twice.
C19_OneStitchOneWrite ==
  \A r \in Requests :
    /\ io[r].stitch <= 1 /\ io[r].write <= 1
    /\ req[r].pc = "done" =>
         IF req[r].code = 200
         THEN io[r].stitch = 1 /\ io[r].write = 1
         ELSE io[r].stitch = 0 /\ io[r].write = 0

\* C20: a step of a request for channel c leaves every other channel's record
\* as it is and changes nothing of c's record but its position, under any
\* interleaving of requests.
C20_OnlyPositionChanges ==
  [][\A r \in Requests :
       req'[r] # req[r] =>
         \A c \in ChannelIds :
           /\ c # req'[r].channelId => store'[c] = store[c]
           /\ store'[c] = [store[c] EXCEPT !.position = store'[c].position]]_vars

\* two overlapping requests for different channels have both written: the
\* second to arrive wrote first, and each record differs from the one its
\* request looked up in the position only
C20_Witness ==
  /\ req[1].channelId = "c1" /\ req[2].channelId = "c2"
  /\ req[1].code = 200 /\ req[2].code = 200
  /\ Len(log) = 4 /\ log[3].by = 2 /\ log[4].by = 1
  /\ \A r \in 1..2 :
       LET c == req[r].channelId
       IN /\ store[c].position # req[r].channel.position
          /\ store[c] = [req[r].channel EXCEPT !.position = req[r].newPosition]
====
